---- MODULE Spec2Model ----
(***************************************************************************)
(* Model of the ATtiny EM4102 tag emulator: firmware/avrfid.S (assembler   *)
(* macros, the three packet assemblers emulateid0..2 and the baseband      *)
(* routines) and firmware/test.c (setup, the selector loop, main).         *)
(*                                                                         *)
(* Machine words (assembler expressions, registers) are modelled as the    *)
(* set of the positions of their 1 bits: 0x12 is {1, 4}.  AND is           *)
(* intersection, OR is union, XOR is symmetric difference, a shift moves   *)
(* the positions.  Identifiers are 32 bits and wider, which this keeps     *)
(* exact.                                                                  *)
(*                                                                         *)
(* The assembler part expands the macros into a flash image, a sequence of *)
(* instructions with labels; the run-time part executes that image one     *)
(* instruction per step and counts clock cycles.                           *)
(***************************************************************************)
EXTENDS Integers, Sequences, FiniteSets, TLC

(* ------------------------------ bounds --------------------------------- *)
\* completed frames are counted up to this number
MaxFrames == 1
\* largest argument value handed to a macro expanded on its own
MaxArg == 63
\* largest bit count handed to manchester expanded on its own
MaxCount == 6
\* largest cycle count handed to delay expanded on its own
MaxCycles == 20

(* ------------------------------ words ---------------------------------- *)
Pow2(k) == 2 ^ k

\* the word of a small non-negative integer
Word(n) == { i \in 0..30 : (n \div Pow2(i)) % 2 = 1 }

\* the word written as hexadecimal digits, most significant first
Hex(ds) == UNION { { 4 * (Len(ds) - k) + i : i \in Word(ds[k]) } : k \in 1..Len(ds) }

And(a, b) == a \cap b
Or(a, b)  == a \cup b
Xor(a, b) == (a \ b) \cup (b \ a)
Shr(a, k) == { i - k : i \in { x \in a : x >= k } }
Shl(a, k) == { i + k : i \in a }

\* bit i of a word, as 0 or 1
BitOf(w, i) == IF i \in w THEN 1 ELSE 0

(* --------------------------- avr/io.h names ---------------------------- *)
PINB0 == 0
PINB1 == 1
PINB2 == 2
PINB3 == 3
PINB4 == 4
DDB0 == 0
DDB1 == 1
DDB2 == 2
_BV(b) == {b}

OUT_PINS == Or(_BV(PINB3), _BV(PINB4))

(* ------------------------------ id.h ----------------------------------- *)
\* The builds of the firmware: each is one id.h, the identifier constants
\* EM4102_MFR_ID, EM4102_UNIQUE_ID0, EM4102_UNIQUE_ID1, EM4102_MFR_ID2 and
\* EM4102_UNIQUE_ID2.  The data model gives a manufacturer code 8 bits and a
\* unique code up to 40 bits.
Builds ==
  << [ EM4102_MFR_ID     |-> Hex(<<1, 2>>),
      EM4102_UNIQUE_ID0 |-> Hex(<<3, 4, 5, 6, 7, 8, 9, 10>>),
      EM4102_UNIQUE_ID1 |-> Hex(<<0, 0, 0, 0, 0, 0, 0, 0>>),
      EM4102_MFR_ID2    |-> Hex(<<15, 15>>),
      EM4102_UNIQUE_ID2 |-> Hex(<<15, 15, 15, 15, 15, 15, 15, 15>>) ],
    [ EM4102_MFR_ID     |-> Hex(<<10, 5>>),
      EM4102_UNIQUE_ID0 |-> Hex(<<8, 9, 10, 11, 12, 13, 14, 15>>),
      EM4102_UNIQUE_ID1 |-> Hex(<<0, 1, 2, 3, 4, 5, 6, 7>>),
      EM4102_MFR_ID2    |-> Hex(<<0, 0>>),
      EM4102_UNIQUE_ID2 |-> Hex(<<8, 0, 0, 0, 0, 0, 0, 1>>) ],
    [ EM4102_MFR_ID     |-> Hex(<<12, 3>>),
      EM4102_UNIQUE_ID0 |-> Hex(<<0, 1, 3, 4, 5, 6, 7, 8, 9, 10>>),
      EM4102_UNIQUE_ID1 |-> Hex(<<15, 14, 13, 12, 11, 10, 9, 8>>),
      EM4102_MFR_ID2    |-> Hex(<<7, 14>>),
      EM4102_UNIQUE_ID2 |-> Hex(<<10, 5, 13, 14, 10, 13, 11, 14, 14, 15>>) ] >>

(* --------------------------- instructions ------------------------------ *)
\* one instruction: mnemonic, label operand ("." is .+0), immediate operand
Instr(op, lbl, val) == [op |-> op, lbl |-> lbl, val |-> val]

RCALL_CYCLES == 3
RJMP_CYCLES  == 2
LDI_CYCLES   == 1
OUT_CYCLES   == 1
NOP_CYCLES   == 1
RET_CYCLES   == 4

Cycles(op) == CASE op = "rcall" -> RCALL_CYCLES
                [] op = "rjmp"  -> RJMP_CYCLES
                [] op = "ldi"   -> LDI_CYCLES
                [] op = "out"   -> OUT_CYCLES
                [] op = "nop"   -> NOP_CYCLES
                [] op = "ret"   -> RET_CYCLES

RECURSIVE CyclesOf(_)
\* clock cycles of a straight-line instruction sequence
CyclesOf(is) == IF is = <<>> THEN 0 ELSE Cycles(Head(is).op) + CyclesOf(Tail(is))

(* ------------------------------ macros --------------------------------- *)
\* ROW_PARITY with the last term of the parity left out
ROW_PARITY_three_terms(n) ==
  Or( Shl(And(n, Word(15)), 1),
      And(Xor(Xor(n, Shr(n, 1)), Shr(n, 2)), Word(1)) )

ROW_PARITY(n) ==
  Or( Shl(And(n, Word(15)), 1),
      And(Xor(Xor(Xor(n, Shr(n, 1)), Shr(n, 2)), Shr(n, 3)), Word(1)) )

COLUMN_PARITY0(id) ==
  Xor(Xor(Xor(Xor(Xor(Xor(Xor(Xor(Xor(
      Shr(id.EM4102_MFR_ID, 4),
      id.EM4102_MFR_ID),
      Shr(id.EM4102_UNIQUE_ID0, 28)),
      Shr(id.EM4102_UNIQUE_ID0, 24)),
      Shr(id.EM4102_UNIQUE_ID0, 20)),
      Shr(id.EM4102_UNIQUE_ID0, 16)),
      Shr(id.EM4102_UNIQUE_ID0, 12)),
      Shr(id.EM4102_UNIQUE_ID0, 8)),
      Shr(id.EM4102_UNIQUE_ID0, 4)),
      id.EM4102_UNIQUE_ID0)

\* COLUMN_PARITY1 left as a copy of COLUMN_PARITY0
COLUMN_PARITY1_copied(id) == COLUMN_PARITY0(id)

COLUMN_PARITY1(id) ==
  Xor(Xor(Xor(Xor(Xor(Xor(Xor(Xor(Xor(
      Shr(id.EM4102_MFR_ID, 4),
      id.EM4102_MFR_ID),
      Shr(id.EM4102_UNIQUE_ID1, 28)),
      Shr(id.EM4102_UNIQUE_ID1, 24)),
      Shr(id.EM4102_UNIQUE_ID1, 20)),
      Shr(id.EM4102_UNIQUE_ID1, 16)),
      Shr(id.EM4102_UNIQUE_ID1, 12)),
      Shr(id.EM4102_UNIQUE_ID1, 8)),
      Shr(id.EM4102_UNIQUE_ID1, 4)),
      id.EM4102_UNIQUE_ID1)

COLUMN_PARITY2(id) ==
  Xor(Xor(Xor(Xor(Xor(Xor(Xor(Xor(Xor(
      Shr(id.EM4102_MFR_ID2, 4),
      id.EM4102_MFR_ID2),
      Shr(id.EM4102_UNIQUE_ID2, 28)),
      Shr(id.EM4102_UNIQUE_ID2, 24)),
      Shr(id.EM4102_UNIQUE_ID2, 20)),
      Shr(id.EM4102_UNIQUE_ID2, 16)),
      Shr(id.EM4102_UNIQUE_ID2, 12)),
      Shr(id.EM4102_UNIQUE_ID2, 8)),
      Shr(id.EM4102_UNIQUE_ID2, 4)),
      id.EM4102_UNIQUE_ID2)

RECURSIVE delay_late_jump(_)
\* delay taking the two-cycle jump only above two cycles
delay_late_jump(cycles) ==
  IF cycles > 2 THEN <<Instr("rjmp", ".", {})>> \o delay_late_jump(cycles - 2)
  ELSE IF cycles > 0 THEN <<Instr("nop", "", {})>> \o delay_late_jump(cycles - 1)
  ELSE <<>>

RECURSIVE delay(_)
delay(cycles) ==
  IF cycles > 1 THEN <<Instr("rjmp", ".", {})>> \o delay(cycles - 2)
  ELSE IF cycles > 0 THEN <<Instr("nop", "", {})>> \o delay(cycles - 1)
  ELSE <<>>

baseband_0 == <<Instr("rcall", "baseband30_0", {}), Instr("rjmp", ".", {})>>

baseband_1 == <<Instr("rcall", "baseband30_1", {}), Instr("rjmp", ".", {})>>

RECURSIVE manchester_not_inverted(_, _)
\* manchester with the polarity of the original tags
manchester_not_inverted(bit, count) ==
  IF count # 0
  THEN manchester_not_inverted(Shr(bit, 1), count - 1)
       \o (IF And(bit, Word(1)) # {}
           THEN baseband_0 \o baseband_1
           ELSE baseband_1 \o baseband_0)
  ELSE <<>>

RECURSIVE manchester_lsb_first(_, _)
\* manchester emitting the low bit before it recurses
manchester_lsb_first(bit, count) ==
  IF count # 0
  THEN (IF And(bit, Word(1)) # {}
        THEN baseband_1 \o baseband_0
        ELSE baseband_0 \o baseband_1)
       \o manchester_lsb_first(Shr(bit, 1), count - 1)
  ELSE <<>>

RECURSIVE manchester_padded_base(_, _)
\* manchester whose zero-width case leaves an instruction behind
manchester_padded_base(bit, count) ==
  IF count # 0
  THEN manchester_padded_base(Shr(bit, 1), count - 1)
       \o (IF And(bit, Word(1)) # {}
           THEN baseband_1 \o baseband_0
           ELSE baseband_0 \o baseband_1)
  ELSE <<Instr("nop", "", {})>>

RECURSIVE manchester(_, _)
manchester(bit, count) ==
  IF count # 0
  THEN manchester(Shr(bit, 1), count - 1)
       \o (IF And(bit, Word(1)) # {}
           THEN baseband_1 \o baseband_0
           ELSE baseband_0 \o baseband_1)
  ELSE <<>>

\* a stop bit of 1
stop_bit_one == manchester(Word(1), 1)

stop_bit == manchester(Word(0), 1)

\* a header of 8 bits
header_eight == manchester(Hex(<<15, 15>>), 8)

header == manchester(Hex(<<1, 15, 15>>), 9)

(* ------------------------- packet assemblers --------------------------- *)
\* emulateid0 with the two highest unique-ID nibbles in the wrong order
emulateid0_swapped(id) ==
     manchester(Hex(<<1, 15, 15>>), 9)
  \o manchester(ROW_PARITY(Shr(id.EM4102_MFR_ID, 4)), 5)
  \o manchester(ROW_PARITY(Shr(id.EM4102_MFR_ID, 0)), 5)
  \o manchester(ROW_PARITY(Shr(id.EM4102_UNIQUE_ID0, 24)), 5)
  \o manchester(ROW_PARITY(Shr(id.EM4102_UNIQUE_ID0, 28)), 5)
  \o manchester(ROW_PARITY(Shr(id.EM4102_UNIQUE_ID0, 20)), 5)
  \o manchester(ROW_PARITY(Shr(id.EM4102_UNIQUE_ID0, 16)), 5)
  \o manchester(ROW_PARITY(Shr(id.EM4102_UNIQUE_ID0, 12)), 5)
  \o manchester(ROW_PARITY(Shr(id.EM4102_UNIQUE_ID0, 8)), 5)
  \o manchester(ROW_PARITY(Shr(id.EM4102_UNIQUE_ID0, 4)), 5)
  \o manchester(ROW_PARITY(Shr(id.EM4102_UNIQUE_ID0, 0)), 5)
  \o manchester(COLUMN_PARITY0(id), 4)
  \o manchester(Word(0), 1)
  \o <<Instr("rjmp", "emulateid0", {})>>

emulateid0(id) ==
     header
  \o manchester(ROW_PARITY(Shr(id.EM4102_MFR_ID, 4)), 5)
  \o manchester(ROW_PARITY(Shr(id.EM4102_MFR_ID, 0)), 5)
  \o manchester(ROW_PARITY(Shr(id.EM4102_UNIQUE_ID0, 28)), 5)
  \o manchester(ROW_PARITY(Shr(id.EM4102_UNIQUE_ID0, 24)), 5)
  \o manchester(ROW_PARITY(Shr(id.EM4102_UNIQUE_ID0, 20)), 5)
  \o manchester(ROW_PARITY(Shr(id.EM4102_UNIQUE_ID0, 16)), 5)
  \o manchester(ROW_PARITY(Shr(id.EM4102_UNIQUE_ID0, 12)), 5)
  \o manchester(ROW_PARITY(Shr(id.EM4102_UNIQUE_ID0, 8)), 5)
  \o manchester(ROW_PARITY(Shr(id.EM4102_UNIQUE_ID0, 4)), 5)
  \o manchester(ROW_PARITY(Shr(id.EM4102_UNIQUE_ID0, 0)), 5)
  \o manchester(COLUMN_PARITY0(id), 4)
  \o stop_bit
  \o <<Instr("rjmp", "emulateid0", {})>>

\* emulateid1 returning to its caller after one frame
emulateid1_returns(id) ==
     header
  \o manchester(ROW_PARITY(Shr(id.EM4102_MFR_ID, 4)), 5)
  \o manchester(ROW_PARITY(Shr(id.EM4102_MFR_ID, 0)), 5)
  \o manchester(ROW_PARITY(Shr(id.EM4102_UNIQUE_ID1, 28)), 5)
  \o manchester(ROW_PARITY(Shr(id.EM4102_UNIQUE_ID1, 24)), 5)
  \o manchester(ROW_PARITY(Shr(id.EM4102_UNIQUE_ID1, 20)), 5)
  \o manchester(ROW_PARITY(Shr(id.EM4102_UNIQUE_ID1, 16)), 5)
  \o manchester(ROW_PARITY(Shr(id.EM4102_UNIQUE_ID1, 12)), 5)
  \o manchester(ROW_PARITY(Shr(id.EM4102_UNIQUE_ID1, 8)), 5)
  \o manchester(ROW_PARITY(Shr(id.EM4102_UNIQUE_ID1, 4)), 5)
  \o manchester(ROW_PARITY(Shr(id.EM4102_UNIQUE_ID1, 0)), 5)
  \o manchester(COLUMN_PARITY1(id), 4)
  \o stop_bit
  \o <<Instr("ret", "", {})>>

emulateid1(id) ==
     header
  \o manchester(ROW_PARITY(Shr(id.EM4102_MFR_ID, 4)), 5)
  \o manchester(ROW_PARITY(Shr(id.EM4102_MFR_ID, 0)), 5)
  \o manchester(ROW_PARITY(Shr(id.EM4102_UNIQUE_ID1, 28)), 5)
  \o manchester(ROW_PARITY(Shr(id.EM4102_UNIQUE_ID1, 24)), 5)
  \o manchester(ROW_PARITY(Shr(id.EM4102_UNIQUE_ID1, 20)), 5)
  \o manchester(ROW_PARITY(Shr(id.EM4102_UNIQUE_ID1, 16)), 5)
  \o manchester(ROW_PARITY(Shr(id.EM4102_UNIQUE_ID1, 12)), 5)
  \o manchester(ROW_PARITY(Shr(id.EM4102_UNIQUE_ID1, 8)), 5)
  \o manchester(ROW_PARITY(Shr(id.EM4102_UNIQUE_ID1, 4)), 5)
  \o manchester(ROW_PARITY(Shr(id.EM4102_UNIQUE_ID1, 0)), 5)
  \o manchester(COLUMN_PARITY1(id), 4)
  \o stop_bit
  \o <<Instr("rjmp", "emulateid1", {})>>

emulateid2(id) ==
     header
  \o manchester(ROW_PARITY(Shr(id.EM4102_MFR_ID2, 4)), 5)
  \o manchester(ROW_PARITY(Shr(id.EM4102_MFR_ID2, 0)), 5)
  \o manchester(ROW_PARITY(Shr(id.EM4102_UNIQUE_ID2, 28)), 5)
  \o manchester(ROW_PARITY(Shr(id.EM4102_UNIQUE_ID2, 24)), 5)
  \o manchester(ROW_PARITY(Shr(id.EM4102_UNIQUE_ID2, 20)), 5)
  \o manchester(ROW_PARITY(Shr(id.EM4102_UNIQUE_ID2, 16)), 5)
  \o manchester(ROW_PARITY(Shr(id.EM4102_UNIQUE_ID2, 12)), 5)
  \o manchester(ROW_PARITY(Shr(id.EM4102_UNIQUE_ID2, 8)), 5)
  \o manchester(ROW_PARITY(Shr(id.EM4102_UNIQUE_ID2, 4)), 5)
  \o manchester(ROW_PARITY(Shr(id.EM4102_UNIQUE_ID2, 0)), 5)
  \o manchester(COLUMN_PARITY2(id), 4)
  \o stop_bit
  \o <<Instr("rjmp", "emulateid2", {})>>

(* -------------------------- baseband routines -------------------------- *)
\* baseband30_0 entering baseband30 by a call
baseband30_0_calls ==
  <<Instr("ldi", "", Word(0)), Instr("rcall", "baseband30", {})>>

\* baseband30_0 one cycle longer than baseband30_1
baseband30_0_slow ==
  <<Instr("ldi", "", Word(0)), Instr("nop", "", {}), Instr("rjmp", "baseband30", {})>>

baseband30_0 == <<Instr("ldi", "", Word(0)), Instr("rjmp", "baseband30", {})>>

\* baseband30_1 driving every pin of the port
baseband30_1_all_pins ==
  <<Instr("ldi", "", Hex(<<15, 15>>)), Instr("rjmp", "baseband30", {})>>

baseband30_1 == <<Instr("ldi", "", OUT_PINS), Instr("rjmp", "baseband30", {})>>

DELAY_CYCLES == 19

\* baseband30 with a delay two cycles short
baseband30_short ==
  <<Instr("out", "DDRB", {})>> \o delay(17) \o <<Instr("ret", "", {})>>

baseband30 == <<Instr("out", "DDRB", {})>> \o delay(DELAY_CYCLES) \o <<Instr("ret", "", {})>>

(* ------------------------------ flash ---------------------------------- *)
\* the routines of avrfid.S in link order, each with its label
Sections(id) ==
  << <<"emulateid0", emulateid0(id)>>,
     <<"emulateid1", emulateid1(id)>>,
     <<"emulateid2", emulateid2(id)>>,
     <<"baseband30_0", baseband30_0>>,
     <<"baseband30_1", baseband30_1>>,
     <<"baseband30", baseband30>> >>

Labels == {"emulateid0", "emulateid1", "emulateid2",
           "baseband30_0", "baseband30_1", "baseband30"}

RECURSIVE Concat(_)
Concat(ss) == IF ss = <<>> THEN <<>> ELSE Head(ss)[2] \o Concat(Tail(ss))

RECURSIVE StartOf(_, _, _)
\* address of the first instruction of section lbl, sections laid out from address at
StartOf(ss, lbl, at) ==
  IF Head(ss)[1] = lbl THEN at ELSE StartOf(Tail(ss), lbl, at + Len(Head(ss)[2]))

\* the assembled image of one build: the code and the address of every label
Assemble(id) ==
  [ code   |-> Concat(Sections(id)),
    labels |-> [ l \in Labels |-> StartOf(Sections(id), l, 1) ],
    size   |-> [ l \in Labels |->
                   Len((CHOOSE s \in { Sections(id)[i] : i \in 1..Len(Sections(id)) } :
                          s[1] = l)[2]) ] ]

Images == [ b \in 1..Len(Builds) |-> Assemble(Builds[b]) ]

(* ------------------------------ state ---------------------------------- *)
VARIABLES
  build,   \* which build of the firmware is in flash
  cpc,     \* position in test.c, "asm" while avrfid.S code runs
  pc,      \* address of the next instruction in flash, 0 while C code runs
  stack,   \* return addresses, innermost first; addresses in test.c are negative
  r16, DDRB, PORTB,
  PINB,    \* the levels of the select inputs PB0..PB2 (the set of the high pins)
  since,   \* clock cycles since the last write of DDRB began, -1 before the first
  gap,     \* clock cycles between the last two writes of DDRB, -1 before the second
  inv,     \* clock cycles since the running baseband_0/1 invocation began, -1 outside
  invb,    \* the bit value of the running baseband invocation, -1 outside
  meas,    \* per bit value, the cycle counts measured on its last invocation
  trace,   \* the values written to DDRB since the start of the frame
  frames,  \* frames completed, counted up to MaxFrames
  mac,     \* the macro invocation expanded on its own
  mval,    \* its value, for an expression macro
  mexp,    \* its expansion, for an instruction macro
  mdone    \* whether it has been expanded

vars == <<build, cpc, pc, stack, r16, DDRB, PORTB, PINB, since, gap, inv, invb,
          meas, trace, frames, mac, mval, mexp, mdone>>

cpuVars == <<build, cpc, pc, stack, r16, DDRB, PORTB, PINB, since, gap, inv, invb,
             meas, trace, frames>>
macVars == <<mac, mval, mexp, mdone>>

\* the identifier constants of the build in flash (id.h)
idh == Builds[build]

Flash == Images[build]
Fetch == Flash.code[pc]
AddrOf(lbl) == Flash.labels[lbl]

\* the routine whose code holds address a
SectionOf(a) ==
  CHOOSE l \in Labels : Flash.labels[l] <= a /\ a < Flash.labels[l] + Flash.size[l]

EmuLabel(k) == CASE k = 0 -> "emulateid0" [] k = 1 -> "emulateid1" [] k = 2 -> "emulateid2"

InEmu(a) == SectionOf(a) \in {"emulateid0", "emulateid1", "emulateid2"}

\* the packet assembler that is running: 0, 1, 2, or -1 in the selector loop
Running ==
  IF cpc # "asm" THEN -1
  ELSE LET a == IF InEmu(pc) THEN pc ELSE Head(stack)
       IN CHOOSE k \in 0..2 : SectionOf(a) = EmuLabel(k)

NoMeas == [woff |-> -1, c30 |-> -1, c32 |-> -1]

NoMacro == [name |-> "none", v |-> {}, n |-> 0]

ResetState ==
  /\ cpc = "setup" /\ pc = 0 /\ stack = <<>>
  /\ r16 = {} /\ DDRB = {} /\ PORTB = {}
  /\ since = -1 /\ gap = -1 /\ inv = -1 /\ invb = -1
  /\ meas = [b \in 0..1 |-> NoMeas]
  /\ trace = <<>> /\ frames = 0

Init ==
  /\ build \in 1..Len(Builds)
  /\ PINB \in SUBSET {PINB0, PINB1, PINB2}
  /\ ResetState
  /\ mac = NoMacro /\ mval = {} /\ mexp = <<>> /\ mdone = FALSE

(* ------------------------------ test.c --------------------------------- *)
\* setup writing the direction register instead of the pull-ups
setup_ddrb ==
  /\ cpc = "setup"
  /\ DDRB' = Or(DDRB, Or(Or(_BV(DDB2), _BV(DDB1)), _BV(DDB0)))
  /\ cpc' = "while"
  /\ UNCHANGED <<build, pc, stack, r16, PORTB, PINB, since, gap, inv, invb, meas,
                 trace, frames>>

\* setup(): PORTB |= _BV(DDB2) | _BV(DDB1) | _BV(DDB0)
setup ==
  /\ cpc = "setup"
  /\ PORTB' = Or(PORTB, Or(Or(_BV(DDB2), _BV(DDB1)), _BV(DDB0)))
  /\ cpc' = "while"
  /\ UNCHANGED <<build, pc, stack, r16, DDRB, PINB, since, gap, inv, invb, meas,
                 trace, frames>>

\* main(): while(1) loop();
main ==
  /\ cpc = "while"
  /\ stack' = <<-1>> \o stack
  /\ cpc' = "check0"
  /\ UNCHANGED <<build, pc, r16, DDRB, PORTB, PINB, since, gap, inv, invb, meas,
                 trace, frames>>

CheckLabel(k) == CASE k = 0 -> "check0" [] k = 1 -> "check1" [] k = 2 -> "check2"
AfterCheck(k) == CASE k = 0 -> "check1" [] k = 1 -> "check2" [] k = 2 -> "return"
\* the first two checks reading each other's input
PinOf_mixed(k) == CASE k = 0 -> PINB1 [] k = 1 -> PINB0 [] k = 2 -> PINB2

PinOf(k) == CASE k = 0 -> PINB0 [] k = 1 -> PINB1 [] k = 2 -> PINB2

\* loop_call entering the packet assembler of the next slot
loop_call_next_slot(k) ==
  /\ cpc = CheckLabel(k)
  /\ And(PINB, _BV(PinOf(k))) = {}
  /\ stack' = <<-(2 + k)>> \o stack
  /\ cpc' = "asm"
  /\ pc' = AddrOf(EmuLabel((k + 1) % 3))
  /\ UNCHANGED <<build, r16, DDRB, PORTB, PINB, since, gap, inv, invb, meas,
                 trace, frames>>

\* loop(): if(!(PINB & _BV(PINBk))) emulateidk();   the input is low: call
loop_call(k) ==
  /\ cpc = CheckLabel(k)
  /\ And(PINB, _BV(PinOf(k))) = {}
  /\ stack' = <<-(2 + k)>> \o stack
  /\ cpc' = "asm"
  /\ pc' = AddrOf(EmuLabel(k))
  /\ UNCHANGED <<build, r16, DDRB, PORTB, PINB, since, gap, inv, invb, meas,
                 trace, frames>>

\* loop(): the input is high: go on to the next statement
loop_skip(k) ==
  /\ cpc = CheckLabel(k)
  /\ And(PINB, _BV(PinOf(k))) # {}
  /\ cpc' = AfterCheck(k)
  /\ UNCHANGED <<build, pc, stack, r16, DDRB, PORTB, PINB, since, gap, inv, invb,
                 meas, trace, frames>>

\* loop() returns to main's while(1)
loop_return ==
  /\ cpc = "return"
  /\ stack' = Tail(stack)
  /\ cpc' = "while"
  /\ UNCHANGED <<build, pc, r16, DDRB, PORTB, PINB, since, gap, inv, invb, meas,
                 trace, frames>>

(* --------------------------- the AVR core ------------------------------ *)
Tick(n) == IF since < 0 THEN -1 ELSE since + n
InvTick(n) == IF inv < 0 THEN -1 ELSE inv + n
Min(a, b) == IF a < b THEN a ELSE b

rcall ==
  /\ cpc = "asm" /\ Fetch.op = "rcall"
  /\ stack' = <<pc + 1>> \o stack
  /\ pc' = AddrOf(Fetch.lbl)
  /\ since' = Tick(RCALL_CYCLES)
  /\ inv' = RCALL_CYCLES
  /\ invb' = IF Fetch.lbl = "baseband30_1" THEN 1 ELSE 0
  /\ UNCHANGED <<build, cpc, r16, DDRB, PORTB, PINB, gap, meas, trace, frames>>

\* rjmp .+0: the padding of baseband_0/1 when it runs in a packet assembler
rjmp_next ==
  /\ cpc = "asm" /\ Fetch.op = "rjmp" /\ Fetch.lbl = "."
  /\ pc' = pc + 1
  /\ since' = Tick(RJMP_CYCLES)
  /\ IF InEmu(pc) /\ invb >= 0
     THEN /\ meas' = [meas EXCEPT ![invb].c32 = inv + RJMP_CYCLES]
          /\ inv' = -1 /\ invb' = -1
     ELSE /\ inv' = InvTick(RJMP_CYCLES)
          /\ UNCHANGED <<meas, invb>>
  /\ UNCHANGED <<build, cpc, stack, r16, DDRB, PORTB, PINB, gap, trace, frames>>

\* rjmp label: into baseband30, or back to the start of the packet assembler
rjmp_label ==
  /\ cpc = "asm" /\ Fetch.op = "rjmp" /\ Fetch.lbl # "."
  /\ pc' = AddrOf(Fetch.lbl)
  /\ since' = Tick(RJMP_CYCLES)
  /\ inv' = InvTick(RJMP_CYCLES)
  /\ IF InEmu(pc)
     THEN trace' = <<>> /\ frames' = Min(frames + 1, MaxFrames)
     ELSE UNCHANGED <<trace, frames>>
  /\ UNCHANGED <<build, cpc, stack, r16, DDRB, PORTB, PINB, gap, invb, meas>>

ldi ==
  /\ cpc = "asm" /\ Fetch.op = "ldi"
  /\ r16' = Fetch.val
  /\ pc' = pc + 1
  /\ since' = Tick(LDI_CYCLES)
  /\ inv' = InvTick(LDI_CYCLES)
  /\ UNCHANGED <<build, cpc, stack, DDRB, PORTB, PINB, gap, invb, meas, trace, frames>>

\* out _SFR_IO_ADDR(DDRB), r16
out ==
  /\ cpc = "asm" /\ Fetch.op = "out"
  /\ DDRB' = r16
  /\ pc' = pc + 1
  /\ trace' = Append(trace, r16)
  /\ gap' = since
  /\ since' = OUT_CYCLES
  /\ inv' = InvTick(OUT_CYCLES)
  /\ meas' = IF invb >= 0 THEN [meas EXCEPT ![invb].woff = inv] ELSE meas
  /\ UNCHANGED <<build, cpc, stack, r16, PORTB, PINB, invb, frames>>

nop ==
  /\ cpc = "asm" /\ Fetch.op = "nop"
  /\ pc' = pc + 1
  /\ since' = Tick(NOP_CYCLES)
  /\ inv' = InvTick(NOP_CYCLES)
  /\ UNCHANGED <<build, cpc, stack, r16, DDRB, PORTB, PINB, gap, invb, meas, trace,
                 frames>>

ret ==
  /\ cpc = "asm" /\ Fetch.op = "ret"
  /\ stack' = Tail(stack)
  /\ IF Head(stack) > 0
     THEN pc' = Head(stack) /\ cpc' = cpc
     ELSE pc' = 0 /\ cpc' = AfterCheck(-Head(stack) - 2)
  /\ since' = Tick(RET_CYCLES)
  /\ inv' = InvTick(RET_CYCLES)
  /\ meas' = IF invb >= 0 THEN [meas EXCEPT ![invb].c30 = inv + RET_CYCLES] ELSE meas
  /\ UNCHANGED <<build, r16, DDRB, PORTB, PINB, gap, invb, trace, frames>>

\* one step of the processor: the instruction or statement at hand
Step ==
  \/ setup
  \/ main
  \/ \E k \in 0..2 : loop_call(k)
  \/ \E k \in 0..2 : loop_skip(k)
  \/ loop_return
  \/ rcall
  \/ rjmp_next
  \/ rjmp_label
  \/ ldi
  \/ out
  \/ nop
  \/ ret

\* a select switch is pressed or released
Switch ==
  /\ \E k \in {PINB0, PINB1, PINB2} : PINB' = Xor(PINB, _BV(k))
  /\ UNCHANGED <<build, cpc, pc, stack, r16, DDRB, PORTB, since, gap, inv, invb,
                 meas, trace, frames>>

CpuStep == Step /\ UNCHANGED macVars

SwitchStep == Switch /\ UNCHANGED macVars

Next ==
  \/ setup /\ UNCHANGED macVars
  \/ main /\ UNCHANGED macVars
  \/ \E k \in 0..2 : loop_call(k) /\ UNCHANGED macVars
  \/ \E k \in 0..2 : loop_skip(k) /\ UNCHANGED macVars
  \/ loop_return /\ UNCHANGED macVars
  \/ rcall /\ UNCHANGED macVars
  \/ rjmp_next /\ UNCHANGED macVars
  \/ rjmp_label /\ UNCHANGED macVars
  \/ ldi /\ UNCHANGED macVars
  \/ out /\ UNCHANGED macVars
  \/ nop /\ UNCHANGED macVars
  \/ ret /\ UNCHANGED macVars
  \/ SwitchStep

Spec == Init /\ [][Next]_vars

\* The processor executes an instruction on every clock cycle for as long as the
\* carrier field powers it: no interrupt, no sleep, nothing else is scheduled.
\* The selector loop and the jumps of the packet assemblers do not read the
\* identifiers, so the behaviours under fairness are followed for one build.
LiveInit == Init /\ build = 1

LiveSpec == LiveInit /\ [][Next]_vars /\ WF_vars(CpuStep)

(* ------------------- macros expanded on their own ---------------------- *)
\* every identifier constant of every build
Identifiers ==
  UNION { { b.EM4102_MFR_ID, b.EM4102_UNIQUE_ID0, b.EM4102_UNIQUE_ID1,
            b.EM4102_MFR_ID2, b.EM4102_UNIQUE_ID2 } :
          b \in { Builds[i] : i \in 1..Len(Builds) } }

\* the shifts the packet assemblers apply to an identifier
RowShifts == {0, 4, 8, 12, 16, 20, 24, 28}

MacroCalls ==
       { [name |-> "ROW_PARITY", v |-> Word(a), n |-> 0] : a \in 0..MaxArg }
  \cup { [name |-> "manchester", v |-> Word(a), n |-> c] :
           a \in 0..MaxArg, c \in 0..MaxCount }
  \cup { [name |-> "row_group", v |-> w, n |-> k] : w \in Identifiers, k \in RowShifts }
  \cup { [name |-> "delay", v |-> {}, n |-> c] : c \in 0..MaxCycles }

MacInit ==
  /\ build = 1
  /\ PINB = {PINB0, PINB1, PINB2}
  /\ ResetState
  /\ mac \in MacroCalls /\ mval = {} /\ mexp = <<>> /\ mdone = FALSE

\* ROW_PARITY(n)
expand_ROW_PARITY ==
  /\ mac.name = "ROW_PARITY" /\ ~mdone
  /\ mval' = ROW_PARITY(mac.v)
  /\ mdone' = TRUE
  /\ UNCHANGED <<mac, mexp>>

\* manchester bit, count
expand_manchester ==
  /\ mac.name = "manchester" /\ ~mdone
  /\ mexp' = manchester(mac.v, mac.n)
  /\ mdone' = TRUE
  /\ UNCHANGED <<mac, mval>>

\* manchester ROW_PARITY(ID >> shift), 5
expand_row_group ==
  /\ mac.name = "row_group" /\ ~mdone
  /\ mval' = ROW_PARITY(Shr(mac.v, mac.n))
  /\ mexp' = manchester(ROW_PARITY(Shr(mac.v, mac.n)), 5)
  /\ mdone' = TRUE
  /\ UNCHANGED mac

\* delay cycles
expand_delay ==
  /\ mac.name = "delay" /\ ~mdone
  /\ mexp' = delay(mac.n)
  /\ mdone' = TRUE
  /\ UNCHANGED <<mac, mval>>

MacNext ==
  \/ expand_ROW_PARITY /\ UNCHANGED cpuVars
  \/ expand_manchester /\ UNCHANGED cpuVars
  \/ expand_row_group /\ UNCHANGED cpuVars
  \/ expand_delay /\ UNCHANGED cpuVars

MacroSpec == MacInit /\ [][MacNext]_vars

(* ===================== what the frame should be ======================== *)
\* the manufacturer code and the unique code the packet assembler of slot k reads
SlotMfr(k) == IF k = 2 THEN idh.EM4102_MFR_ID2 ELSE idh.EM4102_MFR_ID
SlotUnique(k) == CASE k = 0 -> idh.EM4102_UNIQUE_ID0
                   [] k = 1 -> idh.EM4102_UNIQUE_ID1
                   [] k = 2 -> idh.EM4102_UNIQUE_ID2

\* data bit p (0 first, most significant) of row group g (0..9) of an identifier:
\* groups 0 and 1 are the manufacturer nibbles, 2..9 the unique-ID nibbles from
\* bits 31..28 down to bits 3..0
DataBit(mfr, uid, g, p) ==
  IF g < 2 THEN BitOf(mfr, 7 - 4 * g - p) ELSE BitOf(uid, 31 - 4 * (g - 2) - p)

RECURSIVE Sum(_, _, _)
\* f[lo] + ... + f[hi]
Sum(f, lo, hi) == IF lo > hi THEN 0 ELSE f[lo] + Sum(f, lo + 1, hi)

RowParityBit(mfr, uid, g) == Sum([p \in 0..3 |-> DataBit(mfr, uid, g, p)], 0, 3) % 2
ColParityBit(mfr, uid, p) == Sum([g \in 0..9 |-> DataBit(mfr, uid, g, p)], 0, 9) % 2

\* logical bit k (1..64) of the EM4102 frame of an identifier
FrameBit(mfr, uid, k) ==
  IF k <= 9 THEN 1
  ELSE IF k <= 59
       THEN LET g == (k - 10) \div 5
                p == (k - 10) % 5
            IN IF p < 4 THEN DataBit(mfr, uid, g, p) ELSE RowParityBit(mfr, uid, g)
  ELSE IF k <= 63 THEN ColParityBit(mfr, uid, k - 60)
  ELSE 0

(* ======================= what was observed ============================= *)
\* logical bits completed in the running frame
BitsOut == Len(trace) \div 2

\* logical bit k of the running frame as a receiver reads it: 1 when the first
\* half-bit drives the coil pins
Logical(k) == IF trace[2 * k - 1] = OUT_PINS THEN 1 ELSE 0

\* the processor is at the rjmp that closes a frame
AtFrameEnd ==
  /\ cpc = "asm"
  /\ InEmu(pc)
  /\ Fetch.op = "rjmp"
  /\ Fetch.lbl # "."

\* the processor is at the first instruction of a packet assembler
AtFrameStart ==
  /\ cpc = "asm"
  /\ \E k \in 0..2 : pc = AddrOf(EmuLabel(k))

(* ------------------------------- C1 ------------------------------------ *)
C1_Order ==
  AtFrameEnd =>
    /\ BitsOut = 64
    /\ \A k \in 1..64 :
         Logical(k) = FrameBit(SlotMfr(Running), SlotUnique(Running), k)

C1_LoopsBack ==
  AtFrameEnd /\ pc' # pc =>
    /\ pc' = AddrOf(EmuLabel(Running))
    /\ Running' = Running
    /\ trace' = <<>>

\* C1: in every packet assembler the logical bits of a pass are 9 header bits
\* equal to 1, then 10 row groups (manufacturer high nibble, manufacturer low
\* nibble, unique-ID nibbles from bits 31..28 down to 3..0) of 4 data bits and a
\* row-parity bit, then 4 column-parity bits, then a stop bit equal to 0; and
\* after the stop bit the same assembler starts again at its header.
C1_FrameLayout == []C1_Order /\ [][C1_LoopsBack]_vars

\* slot 2 has emitted its second frame and is about to loop back
C1_Witness == frames >= 1 /\ AtFrameEnd /\ BitsOut = 64 /\ Running = 2

(* ------------------------------- C2 ------------------------------------ *)
\* C2: every cycle of a packet assembler, from header start to the next header
\* start, makes exactly 128 writes of the drive register (64 logical bits), in
\* every slot and for every identifier.
C2_FrameLength ==
  /\ Len(trace) <= 128
  /\ AtFrameStart => trace = <<>>
  /\ AtFrameEnd => Len(trace) = 128 /\ BitsOut = 64

\* a slot closes its second frame
C2_Witness == AtFrameEnd /\ frames >= 1 /\ Len(trace) = 128

(* ------------------------------- C3 ------------------------------------ *)
\* C3: the number of clock cycles between any two consecutive writes of the
\* drive register is exactly 32, also from the second half of the stop bit to
\* the first half of the next header.
C3_HalfBit32 == gap \in {-1, 32}

\* C3, inside a frame: every interval between writes of one frame is 32 cycles
C3_InsideFrame == Len(trace) >= 2 => gap = 32

(* ------------------------------- C4 ------------------------------------ *)
\* C4: an invocation of the baseband emitter takes the same number of clock
\* cycles for bit value 0 as for bit value 1, and writes the drive register at
\* the same cycle offset from its start.
C4_Symmetric ==
  /\ meas[0].woff >= 0 /\ meas[1].woff >= 0 => meas[0].woff = meas[1].woff
  /\ meas[0].c30 >= 0 /\ meas[1].c30 >= 0 => meas[0].c30 = meas[1].c30
  /\ meas[0].c32 >= 0 /\ meas[1].c32 >= 0 => meas[0].c32 = meas[1].c32

\* both bit values have been emitted and measured
C4_Witness == meas[0].c32 >= 0 /\ meas[1].c32 >= 0 /\ meas[0].woff >= 0 /\ meas[1].woff >= 0

(* ------------------------------- C5 ------------------------------------ *)
IsRcall(i) == i.op = "rcall"

\* the baseband half-bits an expansion emits, in order: 1 for a call of
\* baseband30_1, 0 for a call of baseband30_0
HalvesOf(is) ==
  LET calls == SelectSeq(is, IsRcall)
  IN [ i \in 1..Len(calls) |-> IF calls[i].lbl = "baseband30_1" THEN 1 ELSE 0 ]

\* C5: ROW_PARITY(n) is a 5-bit group whose upper 4 bits are the nibble n and
\* whose number of set bits is even; so every row group a packet assembler
\* emits, manchester ROW_PARITY(ID >> shift), 5, has an even number of 1 bits.
C5_RowParityEven ==
  /\ mdone /\ mac.name = "ROW_PARITY" =>
       /\ mval \subseteq 0..4
       /\ Shr(mval, 1) = { i \in mac.v : i < 4 }
       /\ Cardinality(mval) % 2 = 0
  /\ mdone /\ mac.name = "row_group" =>
       LET h == HalvesOf(mexp)
       IN /\ Len(h) = 10
          /\ \A p \in 0..3 : h[2 * p + 1] = BitOf(mac.v, mac.n + 3 - p)
          /\ Sum([k \in 1..5 |-> h[2 * k - 1]], 1, 5) % 2 = 0

\* ROW_PARITY has been applied to a nibble with an odd number of set bits
C5_Witness == mdone /\ mac.name = "ROW_PARITY" /\ mac.v = Word(7) /\ mval = Word(15)

(* ------------------------------- C6 ------------------------------------ *)
\* C6: in every frame of every slot the column-parity bit at position j is the
\* XOR of data bit j of the ten row groups of that frame, and the row groups and
\* the column parity come from the same manufacturer code and unique code.
C6_ColumnParity ==
  AtFrameEnd /\ BitsOut = 64 =>
    \A j \in 0..3 :
      /\ Logical(60 + j) = Sum([g \in 0..9 |-> Logical(10 + 5 * g + j)], 0, 9) % 2
      /\ \A g \in 0..9 :
           Logical(10 + 5 * g + j) = DataBit(SlotMfr(Running), SlotUnique(Running), g, j)

\* a frame whose column parity is neither all zeros nor all ones is complete
C6_Witness ==
  /\ AtFrameEnd /\ BitsOut = 64
  /\ \E i, j \in 0..3 : Logical(60 + i) = 1 /\ Logical(60 + j) = 0

(* ------------------------------- C7 ------------------------------------ *)
\* a reader's decoder: strip the header, check row parity, column parity and the
\* stop bit, concatenate the ten data nibbles
Decode ==
  [ ok  |-> /\ \A k \in 1..9 : Logical(k) = 1
            /\ \A g \in 0..9 : Sum([p \in 0..4 |-> Logical(10 + 5 * g + p)], 0, 4) % 2 = 0
            /\ \A j \in 0..3 :
                 (Logical(60 + j) + Sum([g \in 0..9 |-> Logical(10 + 5 * g + j)], 0, 9)) % 2 = 0
            /\ Logical(64) = 0,
    mfr |-> { b \in 0..7 : Logical(10 + 5 * ((7 - b) \div 4) + ((7 - b) % 4)) = 1 },
    uid |-> { b \in 0..31 :
                Logical(10 + 5 * (2 + (31 - b) \div 4) + ((31 - b) % 4)) = 1 } ]

\* C7 as stated: the frame is 64 bits and decodes to the manufacturer code and
\* the unique code of the slot, for every identifier record of the data model.
C7_RoundTrip ==
  AtFrameEnd =>
    /\ BitsOut = 64
    /\ Decode.ok
    /\ Decode.mfr = SlotMfr(Running)
    /\ Decode.uid = SlotUnique(Running)

\* the low 32 bits of a word
Low32(w) == { b \in w : b < 32 }

\* C7 amended: the frame is 64 bits and decodes to the manufacturer code and the
\* low 32 bits of the unique code: the ten data nibbles carry 8 + 32 bits, so the
\* unique code is recovered whole exactly when it fits in 32 bits.
C7_RoundTrip32 ==
  AtFrameEnd =>
    /\ BitsOut = 64
    /\ Decode.ok
    /\ Decode.mfr = SlotMfr(Running)
    /\ Decode.uid = Low32(SlotUnique(Running))
    /\ (SlotUnique(Running) \subseteq 0..31 => Decode.uid = SlotUnique(Running))

\* a frame of a 32-bit unique code with bit 31 set has been emitted and decoded
C7_Witness ==
  /\ AtFrameEnd /\ BitsOut = 64
  /\ 31 \in SlotUnique(Running) /\ SlotUnique(Running) \subseteq 0..31
  /\ Decode.ok /\ Decode.uid = SlotUnique(Running)

(* ------------------------------- C8 ------------------------------------ *)
\* C8: every logical bit of the frame, header, row group, column parity or stop
\* bit, is two writes of the drive register with opposite states: a 1 is
\* (OUT_PINS, then 0) and a 0 is (0, then OUT_PINS).
C8_Polarity ==
  AtFrameEnd /\ BitsOut = 64 =>
    \A k \in 1..64 :
      <<trace[2 * k - 1], trace[2 * k]>> =
        IF FrameBit(SlotMfr(Running), SlotUnique(Running), k) = 1
        THEN <<OUT_PINS, {}>>
        ELSE <<{}, OUT_PINS>>

\* a complete frame with both a 1 and a 0 among its data bits
C8_Witness ==
  /\ AtFrameEnd /\ BitsOut = 64
  /\ <<trace[1], trace[2]>> = <<OUT_PINS, {}>>
  /\ <<trace[127], trace[128]>> = <<{}, OUT_PINS>>
  /\ \E k, l \in 10..59 : Logical(k) = 1 /\ Logical(l) = 0

(* ------------------------------- C9 ------------------------------------ *)
\* C9: for a width n >= 1, manchester(v, n) emits exactly n logical bits, the
\* Manchester encodings of bits n-1, n-2, ..., 0 of v in that order, and the
\* output does not depend on the bits of v at position n and above.
C9_MsbFirst ==
  mdone /\ mac.name = "manchester" /\ mac.n >= 1 =>
    LET h == HalvesOf(mexp)
    IN /\ Len(mexp) = 4 * mac.n
       /\ Len(h) = 2 * mac.n
       /\ \A i \in 1..mac.n :
            <<h[2 * i - 1], h[2 * i]>> =
              IF BitOf(mac.v, mac.n - i) = 1 THEN <<1, 0>> ELSE <<0, 1>>
       /\ \A a \in 0..MaxArg :
            { b \in Word(a) : b < mac.n } = { b \in mac.v : b < mac.n }
              => manchester(Word(a), mac.n) = mexp

\* a value with bits at and above the width has been expanded
C9_Witness ==
  /\ mdone /\ mac.name = "manchester" /\ mac.n = 3 /\ mac.v = Word(46)
  /\ HalvesOf(mexp) = <<1, 0, 1, 0, 0, 1>>

(* ------------------------------- C10 ----------------------------------- *)
\* select input k is the only one asserted (low)
OnlyAsserted(k) == PINB = {PINB0, PINB1, PINB2} \ {PinOf(k)}

\* slot k has just emitted a whole frame of its identifier
FrameEmitted(k) ==
  /\ AtFrameEnd /\ Running = k /\ BitsOut = 64
  /\ \A i \in 1..64 : Logical(i) = FrameBit(SlotMfr(k), SlotUnique(k), i)

\* while the selector loop polls, input k is the only one asserted
C10_Held(k) == [](Running = -1 => OnlyAsserted(k))

\* a packet assembler entered while only input k is asserted is the one of slot
\* k, and a running packet assembler is never replaced by another
C10_NoOther ==
  \A k \in 0..2 :
    /\ Running = -1 /\ OnlyAsserted(k) /\ Running' # -1 => Running' = k
    /\ Running = k => Running' = k

\* C10: if exactly one select input is asserted and stays asserted while the
\* selector loop polls, the packet assembler bound to it is eventually entered,
\* from then on that slot's frame is emitted again and again without end, and no
\* frame of another slot is ever emitted.
C10_OneSelect ==
  /\ \A k \in 0..2 : C10_Held(k) => (<>[](Running = k) /\ []<>FrameEmitted(k))
  /\ [][C10_NoOther]_vars

\* input 1 alone was asserted while polling, and slot 1 has emitted its second frame
C10_Witness == FrameEmitted(1) /\ frames >= 1 /\ stack = <<-3, -1>>

(* ------------------------------- C11 ----------------------------------- *)
\* select input k reads low
Low(k) == CASE k = 0 -> PINB0 \notin PINB
            [] k = 1 -> PINB1 \notin PINB
            [] k = 2 -> PINB2 \notin PINB

\* nothing has been emitted: the coil pins are released and DDRB was never written
C11_Silent ==
  cpc # "asm" =>
    /\ Running = -1
    /\ DDRB = {}
    /\ since = -1 /\ gap = -1
    /\ trace = <<>> /\ frames = 0

\* a packet assembler is entered only by a check that samples its input low
C11_EnteredBySample ==
  cpc # "asm" /\ cpc' = "asm" => \E k \in 0..2 : cpc = CheckLabel(k) /\ Low(k)

\* C11: as long as no select input has been sampled as asserted since reset, no
\* packet assembler is entered and DDRB is never written: the coil pins stay
\* released and no half-bit is emitted.
C11_NoSelectNoEmission == []C11_Silent /\ [][C11_EnteredBySample]_vars

\* loop() has sampled all three inputs high and is about to return
C11_Witness == cpc = "return" /\ PINB = {PINB0, PINB1, PINB2} /\ PORTB # {} /\ DDRB = {}

(* ------------------------------- C12 ----------------------------------- *)
\* the inputs in the set a are the ones asserted
AssertedAre(a) == PINB = {PINB0, PINB1, PINB2} \ a

\* a check that samples its input low enters that input's packet assembler; a
\* later check is reached only after the check before it sampled its input high
C12_FirstMatch ==
  /\ \A k \in 0..2 : cpc = CheckLabel(k) /\ Low(k) /\ cpc' # cpc => Running' = k
  /\ \A k \in 1..2 : cpc' = CheckLabel(k) /\ cpc # cpc' =>
       cpc = CheckLabel(k - 1) /\ ~Low(k - 1)
  /\ cpc' = "check0" /\ cpc # cpc' => cpc = "while"

\* with the inputs in a held asserted while the selector loop polls, slot k is entered
C12_Wins(a, k) == [](Running = -1 => AssertedAre(a)) => <>[](Running = k)

\* C12: when two or more select inputs are asserted at the same time and held,
\* the packet assembler entered is the one of the first-checked asserted input,
\* in the order PINB0, PINB1, PINB2; a later-checked asserted input never wins
\* over an earlier-checked one that is asserted when it is sampled.
C12_FirstCheckedWins ==
  /\ C12_Wins({PINB0, PINB1}, 0)
  /\ C12_Wins({PINB0, PINB2}, 0)
  /\ C12_Wins({PINB1, PINB2}, 1)
  /\ C12_Wins({PINB0, PINB1, PINB2}, 0)
  /\ [][C12_FirstMatch]_vars

\* inputs 1 and 2 are both asserted and slot 1 is emitting
C12_Witness ==
  /\ Running = 1 /\ AssertedAre({PINB1, PINB2})
  /\ stack = <<-3, -1>> /\ Len(trace) = 1

(* ------------------------------- C13 ----------------------------------- *)
C13_Committed ==
  cpc = "asm" =>
    /\ cpc' = "asm"
    /\ Running' = Running
    /\ \A k \in 0..2 : cpc' # CheckLabel(k)

\* C13: once a packet assembler has been entered, control never returns to the
\* selector loop and the select inputs are never sampled again: whatever the
\* inputs do, the emitting slot stays the same, and the later checks of loop()
\* are never executed after an earlier check has dispatched.
C13_NeverReturns == [][C13_Committed]_vars

\* slot 0 is in its second frame although its input was released and input 1 pressed
C13_Witness ==
  /\ Running = 0 /\ frames >= 1 /\ Len(trace) >= 2
  /\ ~Low(0) /\ Low(1)

(* ------------------------------- C14 ----------------------------------- *)
\* C14: manchester(v, 0) emits no half-bit and costs no clock cycle, and it is
\* the base case of manchester(v, n) for every n >= 0: the expansion of n bits
\* holds the instructions of its n bits and nothing else.
C14_ZeroWidth ==
  mdone /\ mac.name = "manchester" =>
    /\ mac.n = 0 => mexp = <<>> /\ CyclesOf(mexp) = 0 /\ HalvesOf(mexp) = <<>>
    /\ Len(mexp) = 4 * mac.n
    /\ Len(HalvesOf(mexp)) = 2 * mac.n
    /\ CyclesOf(mexp) = 2 * mac.n * (RCALL_CYCLES + RJMP_CYCLES)

\* a zero-width field of a non-zero value has been expanded
C14_Witness == mdone /\ mac.name = "manchester" /\ mac.n = 0 /\ mac.v = Word(5) /\ mexp = <<>>

(* ------------------------------- C15 ----------------------------------- *)
\* C15: baseband30_0 and baseband30_1 each take 30 clock cycles including the
\* rcall and the ret (rcall 3 + ldi 1 + rjmp 2 + baseband30 24 = out 1 + delay
\* 19 + ret 4), and with the 2-cycle padding jump of baseband_0 / baseband_1 one
\* half-bit invocation takes the budget of 32 cycles.
C15_Budget ==
  /\ \A b \in 0..1 :
       /\ meas[b].c30 \in {-1, 30}
       /\ meas[b].c32 \in {-1, 32}
       /\ meas[b].woff \in {-1, 6}
  /\ CyclesOf(baseband30) = 24
  /\ CyclesOf(delay(DELAY_CYCLES)) = 19
  /\ RCALL_CYCLES + CyclesOf(baseband30_0) + CyclesOf(baseband30) = 30
  /\ RCALL_CYCLES + CyclesOf(baseband30_1) + CyclesOf(baseband30) = 30
  /\ CyclesOf(baseband_0) + CyclesOf(baseband30_0) + CyclesOf(baseband30) = 32
  /\ CyclesOf(baseband_1) + CyclesOf(baseband30_1) + CyclesOf(baseband30) = 32

\* both routines have been run and timed
C15_Witness == meas[0].c30 = 30 /\ meas[1].c30 = 30 /\ meas[0].c32 = 32 /\ meas[1].c32 = 32

(* ------------------------------- C16 ----------------------------------- *)
\* bit j of the endless stream read at the end of a frame: the frame repeats
StreamBit(j) == Logical(((j - 1) % 64) + 1)

\* the window of 9 stream bits that starts at bit s is all ones
AllOnes(s) == \A i \in 0..8 : StreamBit(s + i) = 1

\* as stated: no window of 9 bits that starts after the first header bit is all
\* ones
C16_HeaderOnly == AtFrameEnd => \A s \in 2..64 : ~AllOnes(s)

\* C16: in the stream of a running packet assembler a run of 9 or more 1 bits
\* begins only at the first header bit, which follows the stop bit 0: the
\* window at the header is all ones, no window that starts in the row groups,
\* the column parity or the stop bit (straddling the frame boundary included)
\* is all ones, and a window that starts at header bits 2..5 is all ones
\* exactly when the header's run continues into the leading 1 bits of the
\* manufacturer code.
C16_RunBeginsAtHeader ==
  AtFrameEnd =>
    /\ StreamBit(64) = 0
    /\ AllOnes(1)
    /\ \A s \in 6..64 : ~AllOnes(s)
    /\ \A s \in 2..5 :
         AllOnes(s) <=>
           \A j \in 10..(s + 8) :
              FrameBit(SlotMfr(Running), SlotUnique(Running), j) = 1

\* a frame whose manufacturer code starts with four 1 bits has been emitted:
\* the header's run is 13 bits long
C16_Witness == AtFrameEnd /\ BitsOut = 64 /\ AllOnes(5) /\ ~AllOnes(6)

(* ------------------------------- C17 ----------------------------------- *)
C17_Direction ==
  /\ DDRB \in {{}, OUT_PINS}
  /\ DDRB \cap {PINB0, PINB1, PINB2} = {}
  /\ \A i \in 1..Len(trace) : trace[i] \in {{}, OUT_PINS}
  /\ cpc = "asm" => PORTB = {DDB0, DDB1, DDB2}

C17_PortKept == cpc = "asm" => PORTB' = PORTB

\* C17: every write made by a packet assembler sets DDRB to 0 or to OUT_PINS,
\* so the direction bits of the select inputs stay 0, and PORTB (the pull-ups
\* set by setup, 0 on the coil pins) is unchanged by every emission step.
C17_OnlyDirection == []C17_Direction /\ [][C17_PortKept]_vars

\* the coil pins are driven in the middle of a frame
C17_Witness ==
  /\ cpc = "asm" /\ DDRB = OUT_PINS /\ Len(trace) >= 3
  /\ PORTB = {DDB0, DDB1, DDB2}

(* ------------------------------- C18 ----------------------------------- *)
\* C18: the stack holds main's and loop's return addresses while a packet
\* assembler runs, plus one return address while a half-bit is in progress;
\* every frame starts at the same depth and the depth never exceeds three.
C18_StackBounded ==
  /\ Len(stack) <= 3
  /\ cpc = "asm" => Len(stack) = (IF InEmu(pc) THEN 2 ELSE 3)
  /\ cpc = "asm" => SubSeq(stack, Len(stack) - 1, Len(stack)) = <<-(2 + Running), -1>>
  /\ AtFrameStart => stack = <<-(2 + Running), -1>>

\* a second frame starts at the depth of the first, and a half-bit is in
\* progress in a later frame
C18_Witness == frames >= 1 /\ cpc = "asm" /\ Len(stack) = 3 /\ Len(trace) >= 1

(* ------------------------------- C19 ----------------------------------- *)
\* C19: delay(n) expands to floor(n/2) jumps to the next instruction followed
\* by (n mod 2) nops and takes exactly n clock cycles; delay(0) is empty.
C19_DelayExact ==
  mdone /\ mac.name = "delay" =>
    /\ mexp = [i \in 1..((mac.n \div 2) + (mac.n % 2)) |->
                 IF i <= mac.n \div 2 THEN Instr("rjmp", ".", {})
                                      ELSE Instr("nop", "", {})]
    /\ CyclesOf(mexp) = mac.n
    /\ mac.n = 0 => mexp = <<>>

\* an odd delay has been expanded: nine jumps and a nop
C19_Witness == mdone /\ mac.name = "delay" /\ mac.n = 19 /\ Len(mexp) = 10

====
